---- MODULE Spec2Model ----
(***************************************************************************)
(* Model of the prediction pipeline of fb-agent-mvp:                       *)
(*   backend/main.py              create_prediction (POST /predict)        *)
(*   backend/agents/demand_predictor.py   DemandPredictorAgent             *)
(*   backend/models/schemas.py    PredictionRequest, Pattern, ...          *)
(*   backend/scripts/seed_qdrant.py       pattern_to_context, seed_qdrant  *)
(*   frontend/app.py              fetch_prediction, fetch_week_predictions *)
(*                                                                         *)
(* Conventions.                                                            *)
(*  - A similarity, a confidence and a relevance score of the index are    *)
(*    integer numbers of thousandths (0.85 is 850, 0.904 is 904).          *)
(*  - A date is a record [year, month, day]; date arithmetic goes through  *)
(*    toordinal as in datetime.                                            *)
(*  - The pseudo-random generator is module state (random_state).  The    *)
(*    values it returns are inputs of the model, passed to the operators   *)
(*    as a record of draws; they are a function of the state they are      *)
(*    drawn from: a state drawn from twice returns the same values         *)
(*    (generator).                                                         *)
(*  - Python float arithmetic is not exact.  Where the code truncates or   *)
(*    rounds a float quotient, the operators below return the SET of       *)
(*    results the IEEE-754 evaluation can produce.                         *)
(***************************************************************************)
EXTENDS Integers, Sequences, FiniteSets, TLC

VARIABLES
    pc,                 \* position of the request in create_prediction / predict
    raw,                \* the request body as received, before validation
    request,            \* the validated PredictionRequest
    _demand_predictor,  \* module-level singleton of demand_predictor.py
    context,            \* result of _fetch_external_context
    retrieval,          \* what _find_similar_patterns did (path taken, index answer)
    similar_patterns,   \* result of _find_similar_patterns
    prediction,         \* the dict built by predict
    response,           \* the HTTP response of create_prediction
    services,           \* the external services: clients, failures, index content
    random_state,       \* state of the module-level generator of `random`
    generator,          \* the values the generator returned, per state drawn from
    inflight,           \* the requests served concurrently, each with its locals
    stages,             \* the stages the request has run, in the order they ran
    dashboard           \* the Streamlit dashboard: sidebar, worker pool, results

vars == <<pc, raw, request, _demand_predictor, context, retrieval,
          similar_patterns, prediction, response, services, random_state,
          generator, inflight, stages, dashboard>>

\* Python's None, for optional numbers and absent dict keys (dict.get): an
\* optional value is <<>> or <<v>>
None == <<>>
Some(v) == <<v>>

\* no exception / no holiday name, where the model keeps a string
NoName == "None"

\* ------------------------------------------------------------------------
\* Bounds of the model
\* ------------------------------------------------------------------------

\* longest pattern list handed to the estimator in SpecEstimator
MaxPatterns == 3

\* ------------------------------------------------------------------------
\* Sequence helpers
\* ------------------------------------------------------------------------

RECURSIVE SumSeq(_)
SumSeq(s) == IF s = <<>> THEN 0 ELSE Head(s) + SumSeq(Tail(s))

Take(s, n) == SubSeq(s, 1, IF Len(s) < n THEN Len(s) ELSE n)

Range(s) == {s[i] : i \in 1..Len(s)}

Abs(x) == IF x < 0 THEN -x ELSE x

SetMin(S) == CHOOSE x \in S : \A y \in S : x <= y
SetMax(S) == CHOOSE x \in S : \A y \in S : x >= y

\* all sequences over S of length 0..n
SeqsUpTo(S, n) == UNION {[1..k -> S] : k \in 0..n}

\* ------------------------------------------------------------------------
\* datetime.date
\* ------------------------------------------------------------------------

Date(y, m, d) == [year |-> y, month |-> m, day |-> d]

IsLeap(y) == (y % 4 = 0) /\ ((y % 100 # 0) \/ (y % 400 = 0))

DaysInMonth(y, m) ==
    IF m = 2 THEN (IF IsLeap(y) THEN 29 ELSE 28)
    ELSE IF m \in {4, 6, 9, 11} THEN 30 ELSE 31

DaysBeforeYear(y) ==
    (y - 1) * 365 + ((y - 1) \div 4) - ((y - 1) \div 100) + ((y - 1) \div 400)

RECURSIVE DaysBeforeMonth(_, _)
DaysBeforeMonth(y, m) ==
    IF m = 1 THEN 0 ELSE DaysBeforeMonth(y, m - 1) + DaysInMonth(y, m - 1)

\* date.toordinal(): 0001-01-01 is day 1
toordinal(d) == DaysBeforeYear(d.year) + DaysBeforeMonth(d.year, d.month) + d.day

\* date.weekday(): Monday is 0, Sunday is 6
weekday(d) == (toordinal(d) + 6) % 7

DayNames == <<"Monday", "Tuesday", "Wednesday", "Thursday", "Friday",
              "Saturday", "Sunday">>

\* date.strftime("%A")
strftime_A(d) == DayNames[weekday(d) + 1]

\* ------------------------------------------------------------------------
\* Text: a number written in a string is the sequence of its decimal digits
\* ------------------------------------------------------------------------

\* the digits of n >= 0, padded with zeros on the left to `width` digits
RECURSIVE Digits(_, _)
Digits(n, width) ==
    IF n < 10 /\ width <= 1 THEN <<n>>
    ELSE Digits(n \div 10, width - 1) \o <<n % 10>>

RECURSIVE Number(_)
Number(digits) ==
    IF digits = <<>> THEN 0
    ELSE 10 * Number(SubSeq(digits, 1, Len(digits) - 1)) + digits[Len(digits)]

\* f"{n}" of an int n >= 0
format_int(n) == Digits(n, 1)

\* f"{x}" of a float x >= 0 with at most 2 decimals, x in hundredths: the
\* shortest text that reads back as x, with at least one decimal
\* (0.92 -> "0.92", 0.9 -> "0.9", 1.0 -> "1.0")
format_float(x) ==
    [whole |-> Digits(x \div 100, 1),
     decimals |-> IF x % 10 = 0 THEN Digits((x % 100) \div 10, 1)
                  ELSE Digits(x % 100, 2)]

\* the text "YYYY-MM-DD" of a date, as patterns.json and the request body
\* write it: year on 4 digits
isoformat(d) == <<Digits(d.year, 4), Digits(d.month, 2), Digits(d.day, 2)>>

\* datetime.strptime(text, "%Y-%m-%d").date()
strptime_Ymd(text) == Date(Number(text[1]), Number(text[2]), Number(text[3]))

\* date.strftime("%Y-%m-%d"): CPython hands the format to the C library's
\* strftime, and glibc writes %Y without padding, so a year before 1000
\* comes out on fewer than 4 digits (date(1, 1, 6) -> "1-01-06")
strftime_Ymd(d) == <<Digits(d.year, 1), Digits(d.month, 2), Digits(d.day, 2)>>

\* ------------------------------------------------------------------------
\* schemas.py
\* ------------------------------------------------------------------------

\* class ServiceType(str, Enum)
ServiceType == {"lunch", "dinner", "brunch"}

\* Pattern.similarity: float = Field(..., ge=0.0, le=1.0)
PatternValid(p) ==
    /\ p.similarity >= 0
    /\ p.similarity <= 1000

\* service_date: date -- the body's "YYYY-MM-DD" text parses as a date
parses_as_date(d) ==
    /\ d.year >= 1
    /\ d.month \in 1..12
    /\ d.day >= 1
    /\ d.day <= DaysInMonth(d.year, d.month)

\* PredictionRequest: service_date must parse as a date, service_type must be
\* a member of ServiceType (pydantic validates before the handler body runs)
RequestValid(r) ==
    /\ parses_as_date(r.service_date)
    /\ r.service_type \in ServiceType

\* ------------------------------------------------------------------------
\* Python float -> number conversions
\* ------------------------------------------------------------------------

\* round(num/den) to an integer, num >= 0, den > 0: the nearest integers.
\* On an exact tie the float that represents the quotient decides, so both
\* neighbours are possible (round(0.855, 2) = 0.85, round(0.875, 2) = 0.88).
RoundOutcomes(num, den) ==
    LET q == num \div den
        r == num % den
    IN IF 2 * r < den THEN {q}
       ELSE IF 2 * r > den THEN {q + 1}
       ELSE {q, q + 1}

\* int(num/den) for floats num >= 0, den > 0: truncation.  When the exact
\* quotient is a positive integer the float quotient may fall one ulp below
\* it, and int() then yields the integer before it
\* (int((110 * 0.76) / 0.76) = 109).
TruncOutcomes(num, den) ==
    LET q == num \div den
        r == num % den
    IN IF r = 0 /\ q > 0 THEN {q - 1, q} ELSE {q}

\* round(score, 2) of a score given in thousandths: the multiple of 0.01
\* nearest to it (round half to even; the index scores sampled below are no
\* ties)
round2(score) ==
    LET q == score \div 10
        r == score % 10
    IN IF r < 5 THEN 10 * q
       ELSE IF r > 5 THEN 10 * (q + 1)
       ELSE IF q % 2 = 0 THEN 10 * q ELSE 10 * (q + 1)

\* ------------------------------------------------------------------------
\* DemandPredictorAgent: the context builder
\* ------------------------------------------------------------------------

\* _is_mock_holiday that looks at the month only
_is_mock_holiday_by_month(service_date) ==
    service_date.month \in {12, 1, 7, 11, 5}

\* _is_mock_holiday: the (month, day) table
holidays == {<<12, 24>>, <<12, 25>>, <<12, 31>>, <<1, 1>>, <<7, 14>>,
             <<11, 11>>, <<5, 1>>}

_is_mock_holiday(service_date) ==
    <<service_date.month, service_date.day>> \in holidays

\* _get_holiday_name: holidays.get((month, day))
_get_holiday_name(service_date) ==
    LET k == <<service_date.month, service_date.day>>
    IN CASE k = <<12, 24>> -> "Christmas Eve"
         [] k = <<12, 25>> -> "Christmas"
         [] k = <<12, 31>> -> "New Year's Eve"
         [] k = <<1, 1>>   -> "New Year's Day"
         [] k = <<7, 14>>  -> "Bastille Day"
         [] k = <<11, 11>> -> "Veterans Day"
         [] k = <<5, 1>>   -> "Labor Day"
         [] OTHER          -> NoName

\* ------------------------------------------------------------------------
\* The module-level generator of `random`
\* ------------------------------------------------------------------------

\* The generator is one object shared by every caller of random.*.  Its state
\* is the seed last set and the number of blocks of draws taken since; what
\* it returns is a function of that state alone.

\* random.seed(a)
random_seed(a) == [seed |-> a, drawn |-> 0]

\* `import random` seeds the generator from the operating system
unseeded == [seed |-> -1, drawn |-> 0]

\* the state after one block of draws
after_draws(state) == [state EXCEPT !.drawn = @ + 1]

\* nothing drawn yet: per generating function, the set of [state, value] of
\* the blocks drawn so far
no_draws == [events |-> {}, weather |-> {}, patterns |-> {}]

\* what the generator can return from `state`: what it returned from that
\* state before, and any value of `all` when that state is new
draws_from(known, state, all) ==
    IF \E k \in known : k.state = state
    THEN {k.value : k \in {x \in known : x.state = state}}
    ELSE all

record_draws(known, state, value) ==
    known \cup {[state |-> state, value |-> value]}

\* a generating function that draws from the state it finds
events_random_state_not_seeded(current, service_date) == current

\* _generate_mock_events: random.seed(service_date.toordinal())
events_random_state(current, service_date) ==
    random_seed(toordinal(service_date))

\* _generate_mock_weather: random.seed(service_date.toordinal() + 1000)
weather_random_state(current, service_date) ==
    random_seed(toordinal(service_date) + 1000)

\* a pattern generator that draws from the state it finds
patterns_random_state_not_seeded(current, service_date) == current

\* _generate_mock_patterns: random.seed(request.service_date.toordinal() + 2000)
patterns_random_state(current, service_date) ==
    random_seed(toordinal(service_date) + 2000)

\* the event catalog of _generate_mock_events
event_types == {"Concert", "Sports Match", "Theater Show", "Conference"}

\* _generate_mock_events, given the values the generator seeded with
\* toordinal(service_date) returns: r1, r2 the two random() values in
\* hundredths, type1 / type2 the two random.choice results
_generate_mock_events(service_date, is_weekend, d) ==
    LET event_probability == IF is_weekend THEN 70 ELSE 30
    IN IF d.r1 < event_probability
       THEN IF is_weekend /\ d.r2 < 20
            THEN <<[type |-> d.type1], [type |-> d.type2]>>
            ELSE <<[type |-> d.type1]>>
       ELSE <<>>

\* _generate_mock_weather, given the values the generator seeded with
\* toordinal(service_date) + 1000 returns: rand in hundredths, and u in
\* {0, 1} placing every randint at the low or the high end of its range
_generate_mock_weather(service_date, is_weekend, d) ==
    LET selected_condition ==
            IF d.rand <= 40 THEN "Clear"
            ELSE IF d.rand <= 70 THEN "Partly Cloudy"
            ELSE IF d.rand <= 85 THEN "Cloudy"
            ELSE IF d.rand <= 95 THEN "Rain"
            ELSE IF d.rand <= 98 THEN "Heavy Rain"
            ELSE "Snow"
        month == service_date.month
        temp_range ==
            IF month \in {12, 1, 2} THEN <<0, 10>>
            ELSE IF month \in {3, 4, 5} THEN <<10, 20>>
            ELSE IF month \in {6, 7, 8} THEN <<20, 30>>
            ELSE <<10, 20>>
        pick(lo, hi) == IF d.u = 0 THEN lo ELSE hi
        precipitation ==
            CASE selected_condition = "Clear" -> 0
              [] selected_condition = "Partly Cloudy" -> pick(0, 10)
              [] selected_condition = "Cloudy" -> pick(10, 30)
              [] selected_condition = "Rain" -> pick(40, 70)
              [] selected_condition = "Heavy Rain" -> pick(70, 100)
              [] OTHER -> pick(30, 60)
    IN [condition |-> selected_condition,
        temperature |-> pick(temp_range[1], temp_range[2]),
        precipitation |-> precipitation,
        wind_speed |-> pick(5, 25)]

\* _fetch_external_context
_fetch_external_context(req, ev, we) ==
    LET is_weekend == weekday(req.service_date) \in {5, 6}
        is_friday == weekday(req.service_date) = 4
        is_holiday == _is_mock_holiday(req.service_date)
    IN [day_of_week |-> strftime_A(req.service_date),
        events |-> _generate_mock_events(req.service_date, is_weekend, ev),
        weather |-> _generate_mock_weather(req.service_date, is_weekend, we),
        is_holiday |-> is_holiday,
        holiday_name |-> IF is_holiday THEN _get_holiday_name(req.service_date)
                         ELSE NoName,
        day_type |-> IF is_weekend THEN "weekend"
                     ELSE IF is_friday THEN "friday" ELSE "weekday"]

\* _fetch_external_context run on the shared generator: the events are drawn
\* first, then the weather, each after its own random.seed; the result is the
\* set of [context, random_state, generator] the call can end with, the
\* draws being taken from Ev and We
fetch_external_context_outcomes(req, current, known, Ev, We) ==
    LET es == events_random_state(current, req.service_date)
        ws == weather_random_state(after_draws(es), req.service_date)
    IN {[context |-> _fetch_external_context(req, ev, we),
         random_state |-> after_draws(ws),
         generator |-> [known EXCEPT
                          !.events = record_draws(@, es, ev),
                          !.weather = record_draws(@, ws, we)]]
        : ev \in draws_from(known.events, es, Ev),
          we \in draws_from(known.weather, ws, We)}

\* hotel_occupancy of _build_context_string, in hundredths: set from the day
\* type; the context of _fetch_external_context has no such key to override it
hotel_occupancy(ctx) ==
    IF ctx.day_type = "weekend" \/ ctx.is_holiday THEN 92
    ELSE IF ctx.day_type = "friday" THEN 88 ELSE 78

\* guests_in_house of _build_context_string
guests_in_house(ctx) ==
    IF ctx.day_type = "weekend" \/ ctx.is_holiday THEN 240
    ELSE IF ctx.day_type = "friday" THEN 200 ELSE 175

\* ", ".join(types) or "None"
join_or_none(types) == IF types = <<>> THEN <<"None">> ELSE types

\* _build_context_string: the text handed to the embedding service, one
\* field per line, each holding the texts the line is formatted from
_build_context_string(req, ctx) ==
    LET date_str == strftime_Ymd(req.service_date)
        types == [i \in 1..Len(ctx.events) |-> ctx.events[i].type]
    IN [Date |-> <<date_str, ctx.day_of_week>>,
        Service |-> req.service_type,
        Day_type |-> ctx.day_type,
        Hotel_occupancy |-> format_float(hotel_occupancy(ctx)),
        Guests_in_house |-> format_int(guests_in_house(ctx)),
        Weather |-> <<ctx.weather.condition,
                      format_int(ctx.weather.temperature)>>,
        Events_nearby |-> join_or_none(types),
        Holiday |-> IF ctx.is_holiday THEN ctx.holiday_name ELSE NoName]

\* ------------------------------------------------------------------------
\* DemandPredictorAgent: the pattern retriever
\* ------------------------------------------------------------------------

\* A point of the collection "fb_patterns" as the index scores it against the
\* query: [id, score, payload], payload = [keys, service_type, date,
\* actual_covers]; keys holds the names of the payload keys that are present
\* among "date" and "actual_covers".
NoFilter == "no-filter"

\* _get_embedding: the embedding service answers or raises
_get_embedding(env) ==
    IF env.embedding_raises THEN [raised |-> "SDKError"] ELSE [raised |-> NoName]

\* qdrant_client.query_points(collection_name="fb_patterns", query=embedding,
\* query_filter=..., limit=...): the `limit` best-scored points that match the
\* filter, best first.  service_type = NoFilter stands for no query_filter.
query_points(collection, service_type, limit) ==
    LET matches(pt) == service_type = NoFilter
                       \/ pt.payload.service_type = service_type
    IN Take(SelectSeq(collection, matches), limit)

\* _search_qdrant whose retry returns filtered_results without [:limit]
_search_qdrant_unsliced(env, service_type, limit) ==
    IF ~env.filtered_raises
    THEN [raised |-> NoName, queries |-> 1,
          hits |-> query_points(env.collection, service_type, limit)]
    ELSE IF ~env.unfiltered_raises
    THEN LET points == query_points(env.collection, NoFilter, limit * 2)
             keep(r) == r.payload.service_type = service_type
         IN [raised |-> NoName, queries |-> 2, hits |-> SelectSeq(points, keep)]
    ELSE [raised |-> "UnexpectedResponse", queries |-> 2, hits |-> <<>>]

\* _search_qdrant that queries a third time when the retry raised
_search_qdrant_retried_twice(env, service_type, limit) ==
    IF ~env.filtered_raises
    THEN [raised |-> NoName, queries |-> 1,
          hits |-> query_points(env.collection, service_type, limit)]
    ELSE IF ~env.unfiltered_raises
    THEN LET points == query_points(env.collection, NoFilter, limit * 2)
             keep(r) == r.payload.service_type = service_type
         IN [raised |-> NoName, queries |-> 2,
             hits |-> Take(SelectSeq(points, keep), limit)]
    ELSE [raised |-> "UnexpectedResponse", queries |-> 3, hits |-> <<>>]

\* _search_qdrant(embedding, service_type, limit): the filtered query, and
\* when it raises the unfiltered query with twice the limit, post-filtered
\* and cut to limit; raises when both queries raise
_search_qdrant(env, service_type, limit) ==
    IF ~env.filtered_raises
    THEN [raised |-> NoName, queries |-> 1,
          hits |-> query_points(env.collection, service_type, limit)]
    ELSE IF ~env.unfiltered_raises
    THEN LET points == query_points(env.collection, NoFilter, limit * 2)
             keep(r) == r.payload.service_type = service_type
             filtered_results == SelectSeq(points, keep)
         IN [raised |-> NoName, queries |-> 2,
             hits |-> Take(filtered_results, limit)]
    ELSE [raised |-> "UnexpectedResponse", queries |-> 2, hits |-> <<>>]

\* _qdrant_hit_to_pattern with the metadata literal of the generator
_qdrant_hit_tagged_mock(hit) ==
    [pattern_id |-> hit.id,
     date |-> toordinal(hit.payload.date),
     actual_covers |-> hit.payload.actual_covers,
     similarity |-> round2(hit.score),
     metadata |-> [source |-> "mock"]]

\* _qdrant_hit_to_pattern: the Pattern built from a hit
_qdrant_hit_to_pattern(hit) ==
    [pattern_id |-> hit.id,
     date |-> toordinal(hit.payload.date),
     actual_covers |-> hit.payload.actual_covers,
     similarity |-> round2(hit.score),
     metadata |-> [source |-> "qdrant"]]

\* the exception _qdrant_hit_to_pattern raises for a hit: payload["date"] or
\* payload["actual_covers"] is missing (KeyError), or Pattern(...) rejects the
\* similarity (ValidationError)
hit_conversion_raises(hit) ==
    IF "date" \notin hit.payload.keys \/ "actual_covers" \notin hit.payload.keys
    THEN "KeyError"
    ELSE IF ~PatternValid(_qdrant_hit_to_pattern(hit)) THEN "ValidationError"
    ELSE NoName

\* list.sort(key=lambda p: p.similarity, reverse=True): stable, descending
RECURSIVE insert_desc(_, _)
insert_desc(sorted, p) ==
    IF sorted = <<>> THEN <<p>>
    ELSE IF Head(sorted).similarity >= p.similarity
         THEN <<Head(sorted)>> \o insert_desc(Tail(sorted), p)
         ELSE <<p>> \o sorted

RECURSIVE sort_by_similarity_desc(_)
sort_by_similarity_desc(patterns) ==
    IF patterns = <<>> THEN <<>>
    ELSE insert_desc(sort_by_similarity_desc(SubSeq(patterns, 1, Len(patterns) - 1)),
                     patterns[Len(patterns)])

\* number of patterns _generate_mock_patterns builds: for i in range(3)
MockCount == 3

\* base_covers of _generate_mock_patterns; d.base and d.holiday in {0, 1}
\* place the two randint calls at the low or the high end of their range
mock_base_covers(ctx, d) ==
    LET pick(lo, hi, u) == IF u = 0 THEN lo ELSE hi
        by_day == IF ctx.day_type = "weekend" THEN pick(130, 160, d.base)
                  ELSE IF ctx.day_type = "friday" THEN pick(120, 145, d.base)
                  ELSE pick(100, 130, d.base)
        with_events == IF ctx.events # <<>>
                       THEN by_day + Len(ctx.events) * 15 ELSE by_day
        with_weather == IF ctx.weather.condition = "Rain" THEN with_events - 10
                        ELSE IF ctx.weather.condition = "Heavy Rain"
                        THEN with_events - 20 ELSE with_events
    IN IF ctx.is_holiday
       THEN IF ctx.holiday_name \in {"Christmas Eve", "Christmas"}
            THEN pick(40, 70, d.holiday)
            ELSE IF ctx.holiday_name = "New Year's Eve"
            THEN pick(180, 220, d.holiday)
            ELSE IF ctx.holiday_name = "New Year's Day"
            THEN pick(50, 80, d.holiday)
            ELSE with_weather
       ELSE with_weather

\* _generate_mock_patterns that dates its patterns after the service date
_generate_mock_patterns_dated_after(req, ctx, d) ==
    LET base_covers == mock_base_covers(ctx, d)
        pattern(i) ==
            LET pattern_covers == base_covers + d.p[i].jitter
            IN [pattern_id |-> i,
                date |-> toordinal(req.service_date) + 30 * d.p[i].months_ago,
                actual_covers |-> IF pattern_covers > 30 THEN pattern_covers ELSE 30,
                similarity |-> d.p[i].similarity,
                metadata |-> [source |-> "mock"]]
    IN sort_by_similarity_desc([i \in 1..MockCount |-> pattern(i)])

\* _generate_mock_patterns, given the values the generator seeded with
\* toordinal(service_date) + 2000 returns: d.p[i] holds months_ago, the jitter
\* randint(-10, 10) and round(uniform(0.85, 0.95), 2) of pattern i
_generate_mock_patterns(req, ctx, d) ==
    LET base_covers == mock_base_covers(ctx, d)
        pattern(i) ==
            LET pattern_covers == base_covers + d.p[i].jitter
            IN [pattern_id |-> i,
                date |-> toordinal(req.service_date) - 30 * d.p[i].months_ago,
                actual_covers |-> IF pattern_covers > 30 THEN pattern_covers ELSE 30,
                similarity |-> d.p[i].similarity,
                metadata |-> [source |-> "mock"]]
    IN sort_by_similarity_desc([i \in 1..MockCount |-> pattern(i)])

\* pattern_date = request.service_date - timedelta(days=30 * months_ago) of
\* _generate_mock_patterns raises OverflowError when the result would precede
\* date.min, whose ordinal is 1
mock_pattern_date_raises(req, d) ==
    IF \E i \in 1..MockCount :
           toordinal(req.service_date) - 30 * d.p[i].months_ago < 1
    THEN "OverflowError" ELSE NoName

\* limit=5 of the call self._search_qdrant(embedding, service_type, limit=5)
SearchLimit == 5

\* the index queried with the request's service type as it is
index_service_type_unmapped(req) == req.service_type

\* the service type the index is queried with: brunch is mapped to breakfast
index_service_type(req) ==
    IF req.service_type = "brunch" THEN "breakfast" ELSE req.service_type

\* the try block of _find_similar_patterns: context string, embedding,
\* search, conversion of the hits.  raised is the exception that leaves the
\* block; searched tells that _search_qdrant returned, hits is what it
\* returned, patterns the converted hits
vector_search(req, env) ==
    LET embedding == _get_embedding(env)
        found == _search_qdrant(env, index_service_type(req), SearchLimit)
        failing == {i \in 1..Len(found.hits) :
                        hit_conversion_raises(found.hits[i]) # NoName}
        out(exc, q, searched, hits, patterns) ==
            [raised |-> exc, embed_calls |-> 1, query_calls |-> q,
             searched |-> searched, hits |-> hits, patterns |-> patterns]
    IN IF embedding.raised # NoName
       THEN out(embedding.raised, 0, FALSE, <<>>, <<>>)
       ELSE IF found.raised # NoName
       THEN out(found.raised, found.queries, FALSE, <<>>, <<>>)
       ELSE IF failing # {}
       THEN out(hit_conversion_raises(found.hits[SetMin(failing)]),
                found.queries, TRUE, found.hits, <<>>)
       ELSE out(NoName, found.queries, TRUE, found.hits,
                [i \in 1..Len(found.hits) |->
                     _qdrant_hit_to_pattern(found.hits[i])])

\* embeddings.create and query_points are called with no timeout, on clients
\* built with none: a call that is never answered never returns, and
\* _find_similar_patterns with it
retrieval_blocks(self, env) ==
    /\ self.qdrant_client
    /\ self.mistral_client
    /\ \/ "embedding" \in env.never_returns
       \/ ~env.embedding_raises /\ "index" \in env.never_returns

\* `except Exception as e:` of _find_similar_patterns catches every class
\* raised inside its try block
ExceptionClasses ==
    {"SDKError", "UnexpectedResponse", "KeyError", "ValidationError",
     "ZeroDivisionError", "OverflowError"}

caught_in_find_similar_patterns(exc) == exc \in ExceptionClasses

\* _find_similar_patterns: [raised, patterns, source, embed_calls,
\* query_calls, searched, hits, generated, context_str].  The call of
\* _generate_mock_patterns is outside the try block: what it raises leaves
\* _find_similar_patterns; generated tells that the call was made
_find_similar_patterns(self, req, ctx, env, d) ==
    LET result(exc, patterns, source, t) ==
            [raised |-> exc, patterns |-> patterns, source |-> source,
             embed_calls |-> t.embed_calls, query_calls |-> t.query_calls,
             searched |-> t.searched, hits |-> t.hits, generated |-> FALSE,
             context_str |-> IF self.qdrant_client /\ self.mistral_client
                             THEN Some(_build_context_string(req, ctx))
                             ELSE None]
        mock(t) == [(IF mock_pattern_date_raises(req, d) # NoName
                     THEN result(mock_pattern_date_raises(req, d), <<>>, "", t)
                     ELSE result(NoName, _generate_mock_patterns(req, ctx, d),
                                 "mock", t))
                    EXCEPT !.generated = TRUE]
        not_tried == [embed_calls |-> 0, query_calls |-> 0, searched |-> FALSE,
                      hits |-> <<>>]
    IN IF self.qdrant_client /\ self.mistral_client
       THEN LET t == vector_search(req, env)
            IN IF t.raised # NoName
               THEN IF caught_in_find_similar_patterns(t.raised) THEN mock(t)
                    ELSE result(t.raised, <<>>, "", t)
               ELSE IF t.hits # <<>> THEN result(NoName, t.patterns, "qdrant", t)
               ELSE mock(t)
       ELSE mock(not_tried)

\* _find_similar_patterns run on the shared generator: the set of [found,
\* random_state, generator] the call can end with, the draws being taken
\* from Mk.  The generator is touched only when _generate_mock_patterns runs
find_similar_patterns_outcomes(self, req, ctx, env, current, known, Mk) ==
    LET ps == patterns_random_state(current, req.service_date)
        outcome(d) ==
            LET found == _find_similar_patterns(self, req, ctx, env, d)
            IN [found |-> found,
                random_state |-> IF found.generated THEN after_draws(ps)
                                 ELSE current,
                generator |-> IF found.generated
                              THEN [known EXCEPT
                                      !.patterns = record_draws(@, ps, d)]
                              ELSE known]
    IN {outcome(d) : d \in draws_from(known.patterns, ps, Mk)}

\* ------------------------------------------------------------------------
\* DemandPredictorAgent: the estimator
\* ------------------------------------------------------------------------

\* _estimate_accuracy_metrics; estimated_mape in tenths of a percent
_estimate_accuracy_metrics(patterns, predicted_covers) ==
    IF Len(patterns) < 2
    THEN {[method |-> "rag_weighted_average", estimated_mape |-> None,
           prediction_interval |-> None, patterns_analyzed |-> None,
           note |-> "Insufficient patterns for variance estimation"]}
    ELSE LET covers == [i \in 1..Len(patterns) |-> patterns[i].actual_covers]
             n == Len(covers)
             total == SumSeq(covers)
             \* sum of |c - mean| / mean * 100 over n, times 10:
             \*   1000 * sum |n*c - total| / (n * total)
             dev == SumSeq([i \in 1..n |-> Abs(n * covers[i] - total)])
             mapes == IF total > 0
                      THEN {Some(m) : m \in RoundOutcomes(1000 * dev, n * total)}
                      ELSE {None}
         IN {[method |-> "rag_weighted_average", estimated_mape |-> m,
              prediction_interval |-> <<SetMin(Range(covers)), SetMax(Range(covers))>>,
              patterns_analyzed |-> Some(n),
              note |-> "Estimated from similar pattern variance, not backtested"]
             : m \in mapes}

\* fallback_prediction with the literals of another default
fallback_prediction_other_default ==
    [raised |-> NoName, predicted_covers |-> 100, confidence |-> 500,
     method |-> "fallback", patterns_count |-> None,
     accuracy_metrics |-> [method |-> "fallback", estimated_mape |-> None,
                           prediction_interval |-> None,
                           patterns_analyzed |-> None,
                           note |-> "No patterns available for estimation"]]

\* the return value of _calculate_prediction for an empty pattern list
fallback_prediction ==
    [raised |-> NoName, predicted_covers |-> 120, confidence |-> 600,
     method |-> "fallback", patterns_count |-> None,
     accuracy_metrics |-> [method |-> "fallback", estimated_mape |-> None,
                           prediction_interval |-> None,
                           patterns_analyzed |-> None,
                           note |-> "No patterns available for estimation"]]

\* total_weight = sum(p.similarity for p in patterns), in thousandths
total_weight(patterns) ==
    SumSeq([i \in 1..Len(patterns) |-> patterns[i].similarity])

\* weighted_sum = sum(p.actual_covers * p.similarity for p in patterns)
weighted_sum(patterns) ==
    SumSeq([i \in 1..Len(patterns) |->
                patterns[i].actual_covers * patterns[i].similarity])

\* predicted_covers = int(weighted_sum / total_weight)
predicted_covers_of(ws, tw) == TruncOutcomes(ws, tw)

\* confidence_of without round(): the mean cut to 2 decimals
confidence_truncated(tw, n) == {10 * (tw \div (10 * n))}

\* confidence = round(total_weight / len(patterns), 2): the mean similarity
\* to the nearest multiple of 0.01
confidence_of(tw, n) == {10 * k : k \in RoundOutcomes(tw, 10 * n)}

\* `if not patterns:` of _calculate_prediction
no_patterns(patterns) == patterns = <<>>

\* _calculate_prediction: the set of results the call can produce; raised is
\* the exception class when the call raises, and the other fields then hold
\* no result
_calculate_prediction(patterns) ==
    IF no_patterns(patterns) THEN {fallback_prediction}
    ELSE LET tw == total_weight(patterns)
             ws == weighted_sum(patterns)
         IN IF tw = 0
            THEN {[raised |-> "ZeroDivisionError", predicted_covers |-> 0,
                   confidence |-> 0, method |-> NoName,
                   patterns_count |-> None,
                   accuracy_metrics |-> fallback_prediction.accuracy_metrics]}
            ELSE UNION {
                   {[raised |-> NoName, predicted_covers |-> c, confidence |-> k,
                     method |-> "weighted_average",
                     patterns_count |-> Some(Len(patterns)),
                     accuracy_metrics |-> am]
                    : k \in confidence_of(tw, Len(patterns)),
                      am \in _estimate_accuracy_metrics(patterns, c)}
                   : c \in predicted_covers_of(ws, tw)}

\* ------------------------------------------------------------------------
\* Collaborators of predict whose code is outside the modelled sources
\* ------------------------------------------------------------------------

CeilDiv(a, b) == (a + b - 1) \div b

\* StaffRecommenderAgent.recommend: headcount per role from fixed
\* covers-per-staff ratios against the usual 7 / 2 / 3
recommend(predicted_covers) ==
    LET role(ratio, usual) ==
            [recommended |-> CeilDiv(predicted_covers, ratio),
             usual |-> usual,
             delta |-> CeilDiv(predicted_covers, ratio) - usual]
    IN [servers |-> role(20, 7), hosts |-> role(75, 2), kitchen |-> role(50, 3)]

\* ReasoningEngine.generate_reasoning: the narrative and the patterns it
\* used; when the language-model call fails it returns an empty reasoning
generate_reasoning(predicted_covers, confidence, patterns, llm_ok) ==
    IF llm_ok
    THEN [summary |-> Some("generated"), patterns_used |-> patterns,
          confidence_factors |-> Some("generated")]
    ELSE [summary |-> None, patterns_used |-> <<>>, confidence_factors |-> None]

\* ------------------------------------------------------------------------
\* demand_predictor.py: the predictor singleton
\* ------------------------------------------------------------------------

\* _demand_predictor = None
no_predictor == [instance |-> 0, qdrant_client |-> FALSE, mistral_client |-> FALSE]

\* DemandPredictorAgent.__init__ / _init_vector_clients: a client exists when
\* its credentials are set and its construction succeeds
DemandPredictorAgent(n, env) ==
    [instance |-> n, qdrant_client |-> env.qdrant_available,
     mistral_client |-> env.mistral_available]

\* get_demand_predictor
get_demand_predictor(current, n, env) ==
    IF current.instance = 0 THEN DemandPredictorAgent(n, env) ELSE current

\* ------------------------------------------------------------------------
\* main.py: create_prediction
\* ------------------------------------------------------------------------

\* exception classes that are ValueError or derive from it
ValueErrorClasses == {"ValueError", "ValidationError", "JSONDecodeError"}

\* except clauses that answer every exception as a validation error
status_422_always(exc) == 422

\* the except clauses of create_prediction: ValueError -> 422, else 500
status_for_exception(exc) == IF exc \in ValueErrorClasses THEN 422 ELSE 500

no_body ==
    [predicted_covers |-> 0, confidence |-> 0,
     reasoning |-> [summary |-> "", patterns_used |-> <<>>,
                    confidence_factors |-> ""],
     staff_recommendation |-> recommend(0),
     accuracy_metrics |-> None]

error_response(status, detail) ==
    [status |-> status, detail |-> detail, body |-> no_body]

\* Reasoning(...) and PredictionResponse(...) built from predict's result;
\* accuracy_metrics is not among the keyword arguments and keeps the schema's
\* default, None
PredictionResponse(result) ==
    LET reasoning_data == result.reasoning
        patterns_from_result == reasoning_data.patterns_used
        reasoning ==
            [summary |-> IF reasoning_data.summary = None THEN "default"
                         ELSE reasoning_data.summary[1],
             patterns_used |-> Take(patterns_from_result, 3),
             confidence_factors |->
                 IF reasoning_data.confidence_factors = None THEN "default"
                 ELSE reasoning_data.confidence_factors[1]]
    IN [status |-> 200, detail |-> "",
        body |-> [predicted_covers |-> result.predicted_covers,
                  confidence |-> result.confidence,
                  reasoning |-> reasoning,
                  staff_recommendation |-> result.staff_recommendation,
                  accuracy_metrics |-> None]]

\* ------------------------------------------------------------------------
\* Inputs of the model
\* ------------------------------------------------------------------------

\* request bodies: a Saturday, a Tuesday, a holiday (Christmas, a Thursday),
\* three dates in the first year of the calendar (a Saturday, a Thursday, and
\* Christmas), and two texts that are no date
ServiceDates ==
    {Date(2025, 1, 18), Date(2025, 1, 21), Date(2025, 12, 25), Date(1, 1, 6),
     Date(1, 1, 18), Date(1, 12, 25)}
BadDates == {Date(2025, 2, 30), Date(2025, 13, 1)}
RawServiceTypes == ServiceType \cup {"breakfast"}

RawRequests ==
    [restaurant_id : {"r1"}, service_date : ServiceDates \cup BadDates,
     service_type : RawServiceTypes]

\* values returned by the generator in _generate_mock_events
EventDraws ==
    [r1 : {10, 50, 90}, r2 : {10, 50}, type1 : {"Concert"}, type2 : {"Conference"}]

\* values returned by the generator in _generate_mock_weather
WeatherDraws == [rand : {20, 90, 97}, u : {0}]

\* values returned by the generator for one pattern of _generate_mock_patterns
PatternDraws ==
    {[months_ago |-> 3, jitter |-> -10, similarity |-> 850],
     [months_ago |-> 12, jitter |-> 10, similarity |-> 950]}

MockDraws == [base : {0, 1}, holiday : {0, 1}, p : [1..MockCount -> PatternDraws]]

\* the points of the index, in the order it ranks them for the query
Point(id, score, service_type, keys, covers) ==
    [id |-> id, score |-> score,
     payload |-> [keys |-> keys, service_type |-> service_type,
                  date |-> Date(2024, 6, 15), actual_covers |-> covers]]

AllKeys == {"date", "actual_covers"}

Corpus ==
    << Point(1, 953, "lunch", AllKeys, 100),
       Point(2, 904, "lunch", AllKeys, 120),
       Point(3, 896, "dinner", AllKeys, 150),
       Point(4, 871, "lunch", AllKeys, 101),
       Point(5, 850, "breakfast", AllKeys, 60),
       Point(6, 848, "lunch", AllKeys, 101),
       Point(7, 802, "lunch", AllKeys, 0),
       Point(8, 760, "lunch", AllKeys, 110),
       Point(9, 700, "dinner", {"date"}, 0),
       Point(10, 420, "dinner", AllKeys, 95),
       Point(11, 4, "breakfast", AllKeys, 70),
       Point(12, 3, "dinner", AllKeys, 80),
       Point(13, -120, "lunch", AllKeys, 90) >>

\* a collection holds a run of the ranking
Collections == {SubSeq(Corpus, i, j) : i \in 1..Len(Corpus), j \in 0..Len(Corpus)}

Environment(qdrant, mistral, emb, filtered, unfiltered, collection) ==
    [qdrant_available |-> qdrant, mistral_available |-> mistral,
     embedding_raises |-> emb, filtered_raises |-> filtered,
     unfiltered_raises |-> unfiltered, collection |-> collection,
     never_returns |-> {}]

\* an environment in which the services of `calls`, among "embedding" and
\* "index", accept a request and never answer it
Unanswering(env, calls) == [env EXCEPT !.never_returns = calls]

\* the external services: a client cannot be built, the embedding call
\* raises, the index answers the filtered query, the index answers only the
\* unfiltered query, the index answers neither
Envs ==
    {Environment(q, m, FALSE, FALSE, FALSE, <<>>)
        : q \in BOOLEAN, m \in {FALSE}}
    \cup {Environment(FALSE, TRUE, FALSE, FALSE, FALSE, <<>>),
          Environment(TRUE, TRUE, TRUE, FALSE, FALSE, <<>>),
          Environment(TRUE, TRUE, FALSE, TRUE, TRUE, <<>>)}
    \cup {Environment(TRUE, TRUE, FALSE, f, FALSE, c)
        : f \in BOOLEAN, c \in Collections}

\* the environments of the end-to-end specification
PipelineEnvs ==
    {e \in Envs : e.collection = <<>>}
    \cup {Environment(TRUE, TRUE, FALSE, f, FALSE, SubSeq(Corpus, 1, 8))
            : f \in BOOLEAN}
    \cup {Environment(TRUE, TRUE, FALSE, FALSE, FALSE, SubSeq(Corpus, w[1], w[2]))
            : w \in {<<7, 7>>, <<8, 9>>, <<10, 10>>, <<11, 12>>}}

\* pattern lists handed to the estimator: any Pattern the schema accepts,
\* with a similarity of two decimals or of three
CoverSamples == {0, 86, 100, 120}
SimilaritySamples == {0, 800, 851, 900}

EstimatorPatterns ==
    [pattern_id : {0}, date : {toordinal(Date(2024, 6, 15))},
     actual_covers : CoverSamples, similarity : SimilaritySamples,
     metadata : {[source |-> "qdrant"]}]

\* ------------------------------------------------------------------------
\* scripts/seed_qdrant.py: the script that fills the index from patterns.json
\* ------------------------------------------------------------------------

\* pattern_to_context: the text embedded for a pattern of patterns.json, one
\* field per line as in _build_context_string; pattern["date"] is a text and
\* goes into the line as it is
pattern_to_context(pattern) ==
    LET types == [i \in 1..Len(pattern.events) |-> pattern.events[i].type]
        events_str == join_or_none(types)
        weather == pattern.weather
    IN [Date |-> <<pattern.date, pattern.day_of_week>>,
        Service |-> pattern.service_type,
        Day_type |-> pattern.day_type,
        Hotel_occupancy |-> format_float(pattern.hotel_occupancy),
        Guests_in_house |-> format_int(pattern.guests_in_house),
        Weather |-> <<weather.condition, format_int(weather.temperature)>>,
        Events_nearby |-> events_str,
        Holiday |-> IF pattern.is_holiday THEN pattern.holiday_name ELSE NoName]

\* the points seed_qdrant upserts for the patterns of the file (one batch):
\* id = idx + i counted from 0, the payload built from the pattern with its
\* context string.  payload["date"] is held as the date its text reads as
\* and score is the score the index gives the point for the query, as in
\* Point
seed_points(patterns, scores) ==
    [idx \in 1..Len(patterns) |->
        LET p == patterns[idx]
        IN [id |-> idx - 1, score |-> scores[idx],
            payload |-> [keys |-> AllKeys,
                         pattern_id |-> p.pattern_id,
                         date |-> strptime_Ymd(p.date),
                         day_of_week |-> p.day_of_week,
                         service_type |-> p.service_type,
                         day_type |-> p.day_type,
                         hotel_occupancy |-> p.hotel_occupancy,
                         guests_in_house |-> p.guests_in_house,
                         actual_covers |-> p.actual_covers,
                         weather_condition |-> p.weather.condition,
                         weather_temp |-> p.weather.temperature,
                         events |-> [i \in 1..Len(p.events) |-> p.events[i].type],
                         is_holiday |-> p.is_holiday,
                         holiday_name |-> p.holiday_name,
                         context_str |-> pattern_to_context(p)]]]

\* get_day_type of derive_covers.py, which writes patterns.json
get_day_type(wd) ==
    IF wd >= 5 THEN "weekend" ELSE IF wd = 4 THEN "friday" ELSE "weekday"

\* the days the seeded patterns and the requests are about: a Saturday, a
\* Tuesday, Christmas on a Thursday and a day of year 1
SeedDates == {Date(2025, 1, 18), Date(2025, 1, 21), Date(2025, 12, 25),
              Date(1, 1, 6)}

\* patterns of patterns.json: the date as the text "YYYY-MM-DD"
SeedPatterns ==
    {[pattern_id |-> "p",
      date |-> isoformat(f.day),
      day_of_week |-> strftime_A(f.day),
      service_type |-> "dinner",
      day_type |-> get_day_type(weekday(f.day)),
      hotel_occupancy |-> f.house[1],
      guests_in_house |-> f.house[2],
      weather |-> [condition |-> f.condition, temperature |-> 0],
      events |-> f.events,
      is_holiday |-> f.holiday # NoName,
      holiday_name |-> f.holiday,
      actual_covers |-> f.covers]
     : f \in [day : SeedDates,
              house : {<<92, 240>>, <<78, 175>>, <<100, 200>>},
              condition : {"Clear", "Rain"},
              events : {<<>>, <<[type |-> "Concert"]>>},
              holiday : {NoName, "Christmas"},
              covers : {95, 120}]}

\* patterns.json: one pattern, or a pattern and the same day with other covers
PatternFiles ==
    {<<p>> : p \in SeedPatterns}
        \cup {<<p, [p EXCEPT !.actual_covers = 120]>>
                 : p \in {q \in SeedPatterns : q.actual_covers = 95}}

\* scores the index gives the seeded points
SeedScores == {900}

\* ------------------------------------------------------------------------
\* frontend/app.py: the dashboard
\* ------------------------------------------------------------------------

\* options of the "Service Type" selectbox and of the "Service Types"
\* multiselect
ServiceTypeOptions == {"breakfast", "lunch", "dinner"}

\* ThreadPoolExecutor(max_workers=5)
max_workers == 5

\* for day_offset in range(7)
WeekLength == 7

\* d + timedelta(days=1)
next_day(d) ==
    IF d.day < DaysInMonth(d.year, d.month) THEN Date(d.year, d.month, d.day + 1)
    ELSE IF d.month < 12 THEN Date(d.year, d.month + 1, 1)
    ELSE Date(d.year + 1, 1, 1)

\* d + timedelta(days=k)
RECURSIVE plus_days(_, _)
plus_days(d, k) == IF k = 0 THEN d ELSE plus_days(next_day(d), k - 1)

\* requests_list of fetch_week_predictions built service by service
week_requests_by_service(start_date, service_types, restaurant_id) ==
    [k \in 1..(WeekLength * Len(service_types)) |->
        [restaurant_id |-> restaurant_id,
         service_date |-> isoformat(plus_days(start_date, (k - 1) % WeekLength)),
         service_type |-> service_types[((k - 1) \div WeekLength) + 1]]]

\* requests_list of fetch_week_predictions: for each of the 7 days, one
\* request per selected service type, the date as current_date.isoformat()
week_requests(start_date, service_types, restaurant_id) ==
    [k \in 1..(WeekLength * Len(service_types)) |->
        LET day_offset == (k - 1) \div Len(service_types)
            service == service_types[((k - 1) % Len(service_types)) + 1]
            current_date == plus_days(start_date, day_offset)
        IN [restaurant_id |-> restaurant_id,
            service_date |-> isoformat(current_date),
            service_type |-> service]]

\* POST /predict as the dashboard sees it: the status of the response.  The
\* body is validated against PredictionRequest (422 when it does not
\* validate); a valid request is answered 200, or 500 on the days of
\* `failing`, for which the service fails
predict_status(params, failing) ==
    LET body == [restaurant_id |-> params.restaurant_id,
                 service_date |-> strptime_Ymd(params.service_date),
                 service_type |-> params.service_type]
    IN IF ~RequestValid(body) THEN 422
       ELSE IF body.service_date \in failing THEN 500
       ELSE 200

\* fetch_prediction: the response's JSON with _params and _error, or, when
\* requests.post or raise_for_status raises, the error record.  The covers
\* and the confidence of a 200 are those of the fallback prediction, as a
\* sample of what the service answers
fetch_prediction(params, status) ==
    IF status = 200
    THEN [_params |-> params, _error |-> None,
          predicted_covers |-> Some(fallback_prediction.predicted_covers),
          confidence |-> Some(fallback_prediction.confidence)]
    ELSE [_params |-> params, _error |-> Some(status),
          predicted_covers |-> None, confidence |-> None]

\* the future of a request whose fetch_prediction has not returned
pending_future(params) ==
    [_params |-> params, _error |-> None, predicted_covers |-> None,
     confidence |-> None]

\* the dashboard before the button is pressed, nothing selected
no_dashboard ==
    [pc |-> "", view_mode |-> "", service_date |-> Date(1, 1, 1),
     service_types |-> <<>>, restaurant_id |-> "", failing |-> {},
     requests_list |-> <<>>, queued |-> 1, running |-> {}, done |-> {},
     futures |-> <<>>, results |-> <<>>, posts |-> 0, answers |-> {}]

\* ------------------------------------------------------------------------
\* The state machine
\* ------------------------------------------------------------------------
no_request == [restaurant_id |-> "", service_date |-> Date(1, 1, 1),
               service_type |-> ""]
no_context == _fetch_external_context(
                  no_request, [r1 |-> 99, r2 |-> 99, type1 |-> "", type2 |-> ""],
                  [rand |-> 0, u |-> 0])
no_retrieval == [raised |-> NoName, source |-> "", embed_calls |-> 0,
                 query_calls |-> 0, searched |-> FALSE, hits |-> <<>>,
                 context_str |-> None]
no_prediction ==
    [raised |-> NoName, predicted_covers |-> 0, confidence |-> 0,
     method |-> NoName, patterns_count |-> None,
     accuracy_metrics |-> fallback_prediction.accuracy_metrics,
     staff_recommendation |-> recommend(0),
     reasoning |-> generate_reasoning(0, 0, <<>>, FALSE)]
no_response == error_response(0, "")

\* the requests create_prediction serves at the same time on the event loop
RequestIds == {"a", "b"}

\* the locals of one create_prediction / predict call: its position, its
\* request, the predictor it was handed, the generator state its context
\* build found, and the results of the steps it has run
no_flight ==
    [pc |-> "idle", request |-> no_request, predictor |-> no_predictor,
     seen |-> unseeded, context |-> no_context, similar_patterns |-> <<>>,
     raised |-> NoName, predicted_covers |-> 0, confidence |-> 0,
     staff_recommendation |-> recommend(0)]

no_inflight == [i \in RequestIds |-> no_flight]

\* a stage that ran, with the predicted_covers it was called with, if any
Stage(name, received) == [name |-> name, received |-> received]

Blank ==
    /\ raw = no_request
    /\ request = no_request
    /\ _demand_predictor = no_predictor
    /\ context = no_context
    /\ retrieval = no_retrieval
    /\ similar_patterns = <<>>
    /\ prediction = no_prediction
    /\ response = no_response
    /\ random_state = unseeded
    /\ generator = no_draws
    /\ inflight = no_inflight
    /\ stages = <<>>
    /\ dashboard = no_dashboard

\* the service is up and no request has arrived
Init ==
    /\ pc = "idle"
    /\ services \in PipelineEnvs
    /\ Blank

\* FastAPI parses the body into a PredictionRequest; a body that does not
\* validate is answered 422 and create_prediction is not called
ReceiveRequest ==
    /\ pc = "idle"
    /\ \E body \in RawRequests :
        /\ raw' = body
        /\ IF RequestValid(body)
           THEN /\ request' = body
                /\ pc' = "handler"
                /\ response' = response
           ELSE /\ request' = request
                /\ pc' = "responded"
                /\ response' = error_response(422, "RequestValidationError")
    /\ UNCHANGED <<_demand_predictor, context, retrieval, similar_patterns,
                   prediction, services, random_state, generator,
                   inflight, stages, dashboard>>

\* create_prediction up to predictor = get_demand_predictor(): the module is
\* reloaded, which resets its _demand_predictor to None, then the accessor
\* builds the agent
GetPredictor ==
    /\ pc = "handler"
    /\ _demand_predictor' =
           get_demand_predictor(no_predictor, _demand_predictor.instance + 1, services)
    /\ pc' = "context"
    /\ UNCHANGED dashboard
    /\ UNCHANGED <<raw, request, context, retrieval, similar_patterns,
                   prediction, response, services, random_state, generator,
                   inflight, stages>>

\* predict, step 1
FetchExternalContext ==
    /\ pc = "context"
    /\ \E o \in fetch_external_context_outcomes(
                    request, random_state, generator, EventDraws, WeatherDraws) :
           /\ context' = o.context
           /\ random_state' = o.random_state
           /\ generator' = o.generator
    /\ pc' = "patterns"
    /\ stages' = Append(stages, Stage("context", None))
    /\ UNCHANGED dashboard
    /\ UNCHANGED <<raw, request, _demand_predictor, retrieval,
                   similar_patterns, prediction, response, services, inflight>>

\* predict, step 2; an exception that _find_similar_patterns lets through
\* leaves predict and create_prediction's except clauses turn it into the
\* response
FindSimilarPatterns ==
    /\ pc = "patterns"
    /\ ~retrieval_blocks(_demand_predictor, services)
    /\ \E o \in find_similar_patterns_outcomes(
                    _demand_predictor, request, context, services,
                    random_state, generator, MockDraws) :
         LET found == o.found
         IN /\ random_state' = o.random_state
            /\ generator' = o.generator
            /\ similar_patterns' = found.patterns
            /\ retrieval' = [raised |-> found.raised,
                             source |-> found.source,
                             embed_calls |-> found.embed_calls,
                             query_calls |-> found.query_calls,
                             searched |-> found.searched,
                             hits |-> found.hits,
                             context_str |-> found.context_str]
            /\ IF found.raised = NoName
               THEN /\ pc' = "calculate"
                    /\ response' = response
               ELSE /\ pc' = "responded"
                    /\ response' = error_response(
                                       status_for_exception(found.raised),
                                       found.raised)
    /\ stages' = Append(stages, Stage("retrieval", None))
    /\ UNCHANGED dashboard
    /\ UNCHANGED <<raw, request, _demand_predictor, context, prediction,
                   services, inflight>>

\* predict, step 3; an exception leaves predict and create_prediction's
\* except clauses turn it into the response
CalculatePrediction ==
    /\ pc = "calculate"
    /\ \E out \in _calculate_prediction(similar_patterns) :
         /\ prediction' = [no_prediction EXCEPT
                             !.raised = out.raised,
                             !.predicted_covers = out.predicted_covers,
                             !.confidence = out.confidence,
                             !.method = out.method,
                             !.patterns_count = out.patterns_count,
                             !.accuracy_metrics = out.accuracy_metrics]
         /\ IF out.raised = NoName
            THEN /\ pc' = "staff"
                 /\ response' = response
            ELSE /\ pc' = "responded"
                 /\ response' = error_response(status_for_exception(out.raised),
                                               out.raised)
    /\ stages' = Append(stages, Stage("estimation", None))
    /\ UNCHANGED dashboard
    /\ UNCHANGED <<raw, request, _demand_predictor, context, retrieval,
                   similar_patterns, services, random_state, generator,
                   inflight>>

\* predict, step 4
RecommendStaff ==
    /\ pc = "staff"
    /\ prediction' = [prediction EXCEPT
                        !.staff_recommendation = recommend(prediction.predicted_covers)]
    /\ stages' = Append(stages,
                        Stage("staffing", Some(prediction.predicted_covers)))
    /\ pc' = "reasoning"
    /\ UNCHANGED dashboard
    /\ UNCHANGED <<raw, request, _demand_predictor, context, retrieval,
                   similar_patterns, response, services, random_state, generator,
                   inflight>>

\* predict, step 5: the language model answers or fails
GenerateReasoning ==
    /\ pc = "reasoning"
    /\ \E llm_ok \in BOOLEAN :
         prediction' = [prediction EXCEPT
                          !.reasoning = generate_reasoning(
                              prediction.predicted_covers, prediction.confidence,
                              similar_patterns, llm_ok)]
    /\ stages' = Append(stages,
                        Stage("narrative", Some(prediction.predicted_covers)))
    /\ pc' = "assemble"
    /\ UNCHANGED dashboard
    /\ UNCHANGED <<raw, request, _demand_predictor, context, retrieval,
                   similar_patterns, response, services, random_state, generator,
                   inflight>>

\* create_prediction after predict returned
Respond ==
    /\ pc = "assemble"
    /\ response' = PredictionResponse(prediction)
    /\ stages' = Append(stages, Stage("assembly", None))
    /\ pc' = "responded"
    /\ UNCHANGED dashboard
    /\ UNCHANGED <<raw, request, _demand_predictor, context, retrieval,
                   similar_patterns, prediction, services, random_state, generator,
                   inflight>>

Next ==
    \/ ReceiveRequest
    \/ GetPredictor
    \/ FetchExternalContext
    \/ FindSimilarPatterns
    \/ CalculatePrediction
    \/ RecommendStaff
    \/ GenerateReasoning
    \/ Respond

\* one POST /predict from arrival to response
Spec == Init /\ [][Next]_vars

\* the environments of the requests that must be answered: the index and the
\* embedding service present, absent, and present but never answering
LiveEnvs ==
    {Environment(FALSE, FALSE, FALSE, FALSE, FALSE, <<>>),
     Environment(TRUE, TRUE, FALSE, FALSE, FALSE, SubSeq(Corpus, 1, 8)),
     Unanswering(Environment(TRUE, TRUE, FALSE, FALSE, FALSE, SubSeq(Corpus, 1, 8)),
                 {"embedding"}),
     Unanswering(Environment(TRUE, TRUE, FALSE, FALSE, FALSE, SubSeq(Corpus, 1, 8)),
                 {"index"})}

InitLive ==
    /\ pc = "idle"
    /\ services \in LiveEnvs
    /\ Blank

\* The coroutine of the request can run until it has responded, except while
\* an external call it made has not returned.  An action of Next is enabled
\* exactly then, and every action of Next moves pc.
CanRun ==
    /\ pc # "responded"
    /\ ~(pc = "patterns" /\ retrieval_blocks(_demand_predictor, services))

\* the positions of a request in create_prediction / predict
Positions ==
    {"idle", "handler", "context", "patterns", "calculate", "staff",
     "reasoning", "assemble", "responded"}

\* the event loop resumes the coroutine
Resumed == CanRun /\ pc' \in Positions \ {pc}

\* one POST /predict on an event loop that resumes every coroutine that can run
SpecLive == InitLive /\ [][Next]_vars /\ WF_pc(Resumed)

\* the context builder applied to a request: every day of 2025, a leap day,
\* a holiday on a Sunday and one on a Friday
ContextDates ==
    {dt \in [year : {2025}, month : 1..12, day : 1..31] : parses_as_date(dt)}
        \cup {Date(2024, 2, 29), Date(2023, 12, 24), Date(2027, 12, 24)}

InitContext ==
    /\ pc = "context"
    /\ services = Environment(FALSE, FALSE, FALSE, FALSE, FALSE, <<>>)
    /\ raw \in [restaurant_id : {"r1"}, service_date : ContextDates,
                 service_type : {"dinner"}]
    /\ request = raw
    /\ _demand_predictor = get_demand_predictor(no_predictor, 1, services)
    /\ context = no_context
    /\ retrieval = no_retrieval
    /\ similar_patterns = <<>>
    /\ prediction = no_prediction
    /\ response = no_response
    /\ random_state = unseeded
    /\ generator = no_draws
    /\ inflight = no_inflight
    /\ stages = <<>>
    /\ dashboard = no_dashboard

NextContext == FetchExternalContext

SpecContext == InitContext /\ [][NextContext]_vars

\* seed_qdrant: the collection is recreated and filled with one point per
\* pattern of the file
SeedQdrant ==
    /\ pc = "seed"
    /\ \E patterns \in PatternFiles :
       \E scores \in [1..Len(patterns) -> SeedScores] :
           services' = [services EXCEPT
                          !.collection = seed_points(patterns, scores)]
    /\ pc' = "context"
    /\ UNCHANGED dashboard
    /\ UNCHANGED <<raw, request, _demand_predictor, context, retrieval,
                   similar_patterns, prediction, response, random_state,
                   generator, inflight, stages>>

\* the index is seeded, then a dinner request is served up to the retrieval
InitSeed ==
    /\ pc = "seed"
    /\ services = Environment(TRUE, TRUE, FALSE, FALSE, FALSE, <<>>)
    /\ raw \in [restaurant_id : {"r1"}, service_date : SeedDates,
                 service_type : {"dinner"}]
    /\ request = raw
    /\ _demand_predictor = get_demand_predictor(no_predictor, 1, services)
    /\ context = no_context
    /\ retrieval = no_retrieval
    /\ similar_patterns = <<>>
    /\ prediction = no_prediction
    /\ response = no_response
    /\ random_state = unseeded
    /\ generator = no_draws
    /\ inflight = no_inflight
    /\ stages = <<>>
    /\ dashboard = no_dashboard

NextSeed == SeedQdrant \/ FetchExternalContext \/ FindSimilarPatterns

SpecSeed == InitSeed /\ [][NextSeed]_vars

\* the selections of the "Service Types" multiselect, in the order selected
ServiceSelections ==
    {<<>>, <<"dinner">>, <<"breakfast">>, <<"lunch", "dinner">>,
     <<"dinner", "breakfast">>, <<"breakfast", "lunch", "dinner">>}

\* the days the sidebar is set to: a week inside a month, a week across the
\* end of a year
DashboardDates == {Date(2025, 3, 3), Date(2025, 12, 28)}

\* what does not change while the dashboard runs: the service's own state
ServiceUnchanged ==
    UNCHANGED <<pc, raw, request, _demand_predictor, context, retrieval,
                similar_patterns, prediction, response, services,
                random_state, generator, inflight, stages>>

\* "Get Prediction" in single-day mode: one POST /predict, whose answer or
\* error is displayed
GetPrediction ==
    /\ dashboard.pc = "sidebar"
    /\ dashboard.view_mode = "single"
    /\ LET params == [restaurant_id |-> dashboard.restaurant_id,
                      service_date |-> isoformat(dashboard.service_date),
                      service_type |-> dashboard.service_types[1]]
           status == predict_status(params, dashboard.failing)
       IN dashboard' = [dashboard EXCEPT
                          !.pc = "shown",
                          !.requests_list = <<params>>,
                          !.posts = 1,
                          !.answers = {[params |-> params, status |-> status]}]
    /\ ServiceUnchanged

\* "Get Week Forecast": without a service type an error is displayed; else
\* fetch_week_predictions builds requests_list and executor.map submits every
\* request to the pool's work queue
GetWeekForecast ==
    /\ dashboard.pc = "sidebar"
    /\ dashboard.view_mode = "weekly"
    /\ IF dashboard.service_types = <<>>
       THEN dashboard' = [dashboard EXCEPT !.pc = "shown"]
       ELSE LET requests_list == week_requests(dashboard.service_date,
                                               dashboard.service_types,
                                               dashboard.restaurant_id)
            IN dashboard' = [dashboard EXCEPT
                               !.pc = "fetching",
                               !.requests_list = requests_list,
                               !.futures = [k \in 1..Len(requests_list) |->
                                               pending_future(requests_list[k])]]
    /\ ServiceUnchanged

\* a worker thread of the pool, of which there are at most max_workers, takes
\* the next request of the queue and posts it
WorkerTakes ==
    /\ dashboard.pc = "fetching"
    /\ dashboard.queued <= Len(dashboard.requests_list)
    /\ Cardinality(dashboard.running) < max_workers
    /\ dashboard' = [dashboard EXCEPT
                       !.running = @ \cup {dashboard.queued},
                       !.queued = @ + 1,
                       !.posts = @ + 1]
    /\ ServiceUnchanged

\* fetch_prediction returns in a worker: the future of the request holds the
\* data or the error record
WorkerReturns ==
    /\ dashboard.pc = "fetching"
    /\ \E k \in dashboard.running :
         LET params == dashboard.requests_list[k]
             status == predict_status(params, dashboard.failing)
         IN dashboard' = [dashboard EXCEPT
                            !.running = @ \ {k},
                            !.done = @ \cup {k},
                            !.futures[k] = fetch_prediction(params, status),
                            !.answers = @ \cup {[params |-> params,
                                                 status |-> status]}]
    /\ ServiceUnchanged

\* list(executor.map(...)) has every result, in the order of requests_list,
\* and fetch_week_predictions returns
ReturnResults ==
    /\ dashboard.pc = "fetching"
    /\ dashboard.done = 1..Len(dashboard.requests_list)
    /\ dashboard' = [dashboard EXCEPT !.pc = "shown",
                                      !.results = dashboard.futures]
    /\ ServiceUnchanged

\* the dashboard with its sidebar set, before the button is pressed
InitDashboard ==
    /\ pc = "idle"
    /\ services = Environment(FALSE, FALSE, FALSE, FALSE, FALSE, <<>>)
    /\ raw = no_request
    /\ request = no_request
    /\ _demand_predictor = no_predictor
    /\ context = no_context
    /\ retrieval = no_retrieval
    /\ similar_patterns = <<>>
    /\ prediction = no_prediction
    /\ response = no_response
    /\ random_state = unseeded
    /\ generator = no_draws
    /\ inflight = no_inflight
    /\ stages = <<>>
    /\ \E view_mode \in {"single", "weekly"}, service_date \in DashboardDates,
          failing \in {{}, {Date(2025, 12, 30)}},
          service_types \in ServiceSelections \cup
                               {<<t>> : t \in ServiceTypeOptions} :
         /\ view_mode = "single" => Len(service_types) = 1
         /\ view_mode = "weekly" => service_types \in ServiceSelections
         /\ dashboard = [no_dashboard EXCEPT
                           !.pc = "sidebar",
                           !.view_mode = view_mode,
                           !.service_date = service_date,
                           !.service_types = service_types,
                           !.restaurant_id = "hotel_main",
                           !.failing = failing]

NextDashboard ==
    \/ GetPrediction
    \/ GetWeekForecast
    \/ WorkerTakes
    \/ WorkerReturns
    \/ ReturnResults

SpecDashboard == InitDashboard /\ [][NextDashboard]_vars

\* the estimator applied to a list of patterns
InitEstimator ==
    /\ pc = "calculate"
    /\ services = Environment(TRUE, TRUE, FALSE, FALSE, FALSE, <<>>)
    /\ raw = no_request
    /\ request = no_request
    /\ _demand_predictor = no_predictor
    /\ context = no_context
    /\ retrieval = no_retrieval
    /\ similar_patterns \in SeqsUpTo(EstimatorPatterns, MaxPatterns)
    /\ prediction = no_prediction
    /\ response = no_response
    /\ random_state = unseeded
    /\ generator = no_draws
    /\ inflight = no_inflight
    /\ stages = <<>>
    /\ dashboard = no_dashboard

NextEstimator == CalculatePrediction

SpecEstimator == InitEstimator /\ [][NextEstimator]_vars

\* the retriever applied to a request and its context, in any environment
InitRetriever ==
    /\ pc = "patterns"
    /\ services \in Envs
    /\ raw \in {r \in RawRequests : RequestValid(r)}
    /\ request = raw
    /\ _demand_predictor = get_demand_predictor(no_predictor, 1, services)
    /\ \E o \in fetch_external_context_outcomes(
                    request, unseeded, no_draws,
                    {e \in EventDraws : e.r1 = 50 /\ e.r2 = 10},
                    {w \in WeatherDraws : w.rand = 90}) :
           /\ context = o.context
           /\ random_state = o.random_state
           /\ generator = o.generator
    /\ retrieval = no_retrieval
    /\ similar_patterns = <<>>
    /\ prediction = no_prediction
    /\ response = no_response
    /\ inflight = no_inflight
    /\ stages = <<>>
    /\ dashboard = no_dashboard

NextRetriever == FindSimilarPatterns

SpecRetriever == InitRetriever /\ [][NextRetriever]_vars

\* Requests served concurrently.  create_prediction and predict are
\* coroutines of one event loop: a request can be suspended at an await and
\* another one resumed; the code between two awaits runs without
\* interruption.  Every step of predict is taken as a point of suspension.

\* inputs of the concurrent requests
ConcurrentRequests ==
    {r \in RawRequests :
        /\ RequestValid(r)
        /\ r.service_type = "lunch"
        /\ r.service_date \in {Date(2025, 1, 18), Date(2025, 1, 21)}}

ConcurrentEventDraws == {e \in EventDraws : e.r1 \in {10, 90} /\ e.r2 = 50}

ConcurrentWeatherDraws == {w \in WeatherDraws : w.rand \in {20, 97}}

ConcurrentMockDraws ==
    {d \in MockDraws :
        /\ d.holiday = 0
        /\ \A i \in 1..MockCount : d.p[i] = d.p[1]}

ConcurrentEnvs ==
    {Environment(FALSE, FALSE, FALSE, FALSE, FALSE, <<>>),
     Environment(TRUE, TRUE, FALSE, FALSE, FALSE, SubSeq(Corpus, 1, 8))}

InitConcurrent ==
    /\ pc = "idle"
    /\ services \in ConcurrentEnvs
    /\ Blank

\* what a step of request i leaves alone
SingleRequestUnchanged ==
    UNCHANGED <<pc, raw, request, context, retrieval, similar_patterns,
                prediction, response, services, stages, dashboard>>

\* a request arrives and create_prediction is called with it
Arrive(i) ==
    /\ inflight[i].pc = "idle"
    /\ \E body \in ConcurrentRequests :
           inflight' = [inflight EXCEPT ![i].request = body,
                                        ![i].pc = "handler"]
    /\ SingleRequestUnchanged
    /\ UNCHANGED <<_demand_predictor, random_state, generator>>

\* create_prediction reloads the module and takes the predictor
TakePredictor(i) ==
    /\ inflight[i].pc = "handler"
    /\ _demand_predictor' =
           get_demand_predictor(no_predictor, _demand_predictor.instance + 1,
                                services)
    /\ inflight' = [inflight EXCEPT ![i].predictor = _demand_predictor',
                                    ![i].pc = "context"]
    /\ SingleRequestUnchanged
    /\ UNCHANGED <<random_state, generator>>

\* predict, step 1, of request i
BuildContext(i) ==
    /\ inflight[i].pc = "context"
    /\ \E o \in fetch_external_context_outcomes(
                    inflight[i].request, random_state, generator,
                    ConcurrentEventDraws, ConcurrentWeatherDraws) :
           /\ inflight' = [inflight EXCEPT ![i].seen = random_state,
                                           ![i].context = o.context,
                                           ![i].pc = "patterns"]
           /\ random_state' = o.random_state
           /\ generator' = o.generator
    /\ SingleRequestUnchanged
    /\ UNCHANGED _demand_predictor

\* predict, step 2, of request i
RetrievePatterns(i) ==
    /\ inflight[i].pc = "patterns"
    /\ ~retrieval_blocks(inflight[i].predictor, services)
    /\ \E o \in find_similar_patterns_outcomes(
                    inflight[i].predictor, inflight[i].request,
                    inflight[i].context, services, random_state, generator,
                    ConcurrentMockDraws) :
           /\ inflight' = [inflight EXCEPT
                             ![i].similar_patterns = o.found.patterns,
                             ![i].raised = o.found.raised,
                             ![i].pc = IF o.found.raised = NoName
                                       THEN "calculate" ELSE "responded"]
           /\ random_state' = o.random_state
           /\ generator' = o.generator
    /\ SingleRequestUnchanged
    /\ UNCHANGED _demand_predictor

\* predict, step 3, of request i
Estimate(i) ==
    /\ inflight[i].pc = "calculate"
    /\ \E out \in _calculate_prediction(inflight[i].similar_patterns) :
           inflight' = [inflight EXCEPT
                          ![i].predicted_covers = out.predicted_covers,
                          ![i].confidence = out.confidence,
                          ![i].raised = out.raised,
                          ![i].pc = IF out.raised = NoName
                                    THEN "staff" ELSE "responded"]
    /\ SingleRequestUnchanged
    /\ UNCHANGED <<_demand_predictor, random_state, generator>>

\* predict, step 4, of request i
Staff(i) ==
    /\ inflight[i].pc = "staff"
    /\ inflight' = [inflight EXCEPT
                      ![i].staff_recommendation =
                          recommend(inflight[i].predicted_covers),
                      ![i].pc = "reasoning"]
    /\ SingleRequestUnchanged
    /\ UNCHANGED <<_demand_predictor, random_state, generator>>

\* predict, step 5, and the response of request i, built from its locals
ReasonAndRespond(i) ==
    /\ inflight[i].pc = "reasoning"
    /\ inflight' = [inflight EXCEPT ![i].pc = "responded"]
    /\ SingleRequestUnchanged
    /\ UNCHANGED <<_demand_predictor, random_state, generator>>

NextConcurrent ==
    \E i \in RequestIds :
        \/ Arrive(i)
        \/ TakePredictor(i)
        \/ BuildContext(i)
        \/ RetrievePatterns(i)
        \/ Estimate(i)
        \/ Staff(i)
        \/ ReasonAndRespond(i)

\* the requests of RequestIds served at the same time
SpecConcurrent == InitConcurrent /\ [][NextConcurrent]_vars

\* ------------------------------------------------------------------------
\* Properties
\* ------------------------------------------------------------------------

Similarities(patterns) == [i \in 1..Len(patterns) |-> patterns[i].similarity]

NonIncreasing(patterns) ==
    \A i \in 1..Len(patterns) - 1 :
        patterns[i].similarity >= patterns[i + 1].similarity

AllFrom(patterns, source) ==
    \A i \in 1..Len(patterns) : patterns[i].metadata.source = source

\* the estimator returned a result for similar_patterns
Estimated == pc = "staff"

\* _find_similar_patterns returned similar_patterns
Retrieved == pc = "calculate"

\* C1: every prediction returned for a well-formed request has a positive
\* predicted_covers and a confidence in [0, 1]
C1_PositiveCoversConfidenceInRange ==
    response.status = 200 =>
        /\ response.body.predicted_covers > 0
        /\ response.body.confidence \in 0..1000

\* C2: for the empty pattern list the estimator returns exactly 120 covers,
\* confidence 0.60, method "fallback", estimated_mape None and the no-data note
C2_EmptyListFallback ==
    (pc # "calculate" /\ similar_patterns = <<>>) =>
        /\ Estimated
        /\ prediction.predicted_covers = 120
        /\ prediction.confidence = 600
        /\ prediction.method = "fallback"
        /\ prediction.accuracy_metrics.method = "fallback"
        /\ prediction.accuracy_metrics.estimated_mape = None
        /\ prediction.accuracy_metrics.note = "No patterns available for estimation"

C2_Witness == Estimated /\ similar_patterns = <<>>

\* C3: for every non-empty pattern list predicted_covers is the
\* similarity-weighted mean of the covers rounded to the nearest integer, and
\* method is "weighted_average"
C3_RoundedWeightedMean ==
    (Estimated /\ similar_patterns # <<>>) =>
        /\ prediction.predicted_covers \in
               RoundOutcomes(weighted_sum(similar_patterns),
                             total_weight(similar_patterns))
        /\ prediction.method = "weighted_average"

\* the confidence is a multiple of 0.01 nearest to the mean similarity
NearestHundredthOfMean ==
    LET n == Len(similar_patterns)
    IN /\ prediction.confidence % 10 = 0
       /\ 2 * Abs(prediction.confidence * n - total_weight(similar_patterns))
              <= 10 * n

\* the confidence lies between the smallest and the largest similarity
BetweenSmallestAndLargest ==
    LET sims == Range(Similarities(similar_patterns))
    IN /\ SetMin(sims) <= prediction.confidence
       /\ prediction.confidence <= SetMax(sims)

C5_RetrievalNeverRaises ==
    pc # "patterns" =>
        /\ retrieval.raised = NoName
        /\ Retrieved
        /\ similar_patterns # <<>>

\* retrieval is degraded: a client is absent, the embedding call raises, the
\* index search raises, or the index answers with zero hits
Degraded ==
    \/ ~_demand_predictor.qdrant_client
    \/ ~_demand_predictor.mistral_client
    \/ services.embedding_raises
    \/ (services.filtered_raises /\ services.unfiltered_raises)
    \/ (retrieval.searched /\ retrieval.hits = <<>>)

\* C6: whenever retrieval is degraded, _find_similar_patterns returns exactly
\* 3 patterns, each tagged as generated (metadata source "mock"), ordered by
\* non-increasing similarity
C6_DegradedGivesThreeSynthetic ==
    (pc # "patterns" /\ Degraded) =>
        /\ Retrieved
        /\ Len(similar_patterns) = 3
        /\ AllFrom(similar_patterns, "mock")
        /\ NonIncreasing(similar_patterns)

\* every hit of the index answer converts into a Pattern
AllHitsConvert ==
    \A i \in 1..Len(retrieval.hits) :
        hit_conversion_raises(retrieval.hits[i]) = NoName

SomeHitConverts ==
    \E i \in 1..Len(retrieval.hits) :
        hit_conversion_raises(retrieval.hits[i]) = NoName

\* every returned pattern is tagged, and a batch holds one tag only
TaggedUniformly ==
    /\ \A i \in 1..Len(similar_patterns) :
           similar_patterns[i].metadata.source \in {"qdrant", "mock"}
    /\ AllFrom(similar_patterns, "qdrant") \/ AllFrom(similar_patterns, "mock")

\* C7 as stated: every returned pattern is tagged as index-sourced or as
\* synthetic, a batch never mixes the two, and when the index answers with at
\* least one valid hit no returned pattern is synthetic
C7_ValidHitExcludesSynthetic ==
    Retrieved =>
        /\ TaggedUniformly
        /\ (retrieval.searched /\ SomeHitConverts)
               => ~\E i \in 1..Len(similar_patterns) :
                      similar_patterns[i].metadata.source = "mock"

\* C7 amended: every returned pattern is tagged as index-sourced or as
\* synthetic, a batch never mixes the two, and when the index answers with at
\* least one hit and every hit of the answer is valid, the returned patterns
\* are the hits, none of them synthetic; otherwise all of them are synthetic
C7_ProvenanceTellsGroundedFromDegraded ==
    Retrieved =>
        /\ TaggedUniformly
        /\ IF retrieval.searched /\ retrieval.hits # <<>> /\ AllHitsConvert
           THEN /\ AllFrom(similar_patterns, "qdrant")
                /\ Len(similar_patterns) = Len(retrieval.hits)
                /\ \A i \in 1..Len(similar_patterns) :
                       similar_patterns[i].pattern_id = retrieval.hits[i].id
           ELSE AllFrom(similar_patterns, "mock")

C7_Witness ==
    /\ Retrieved
    /\ retrieval.searched
    /\ Len(retrieval.hits) >= 2
    /\ AllHitsConvert
    /\ AllFrom(similar_patterns, "qdrant")

\* C8: on every path (filtered query, unfiltered retry, synthetic fallback)
\* the returned sequence has at most 5 patterns and is ordered by
\* non-increasing similarity
C8_AtMostFiveRankedBySimilarity ==
    Retrieved =>
        /\ Len(similar_patterns) <= 5
        /\ NonIncreasing(similar_patterns)

C8_Witness ==
    /\ Retrieved
    /\ retrieval.query_calls = 2
    /\ Len(services.collection) > 5
    /\ Len(similar_patterns) = 5
    /\ AllFrom(similar_patterns, "qdrant")

\* C9: every well-formed request is answered with a prediction: the
\* estimator's predicted_covers and confidence and the staffing
\* recommendation, with a default reasoning when the narrative generator failed
C9_WellFormedRequestGetsPrediction ==
    (pc = "responded" /\ RequestValid(raw)) =>
        /\ response.status = 200
        /\ response.body.predicted_covers = prediction.predicted_covers
        /\ response.body.confidence = prediction.confidence
        /\ response.body.staff_recommendation = prediction.staff_recommendation
        /\ prediction.reasoning.summary = None
               => response.body.reasoning.summary = "default"

C11_EstimatorNeverRaises ==
    (pc # "calculate"
     /\ \A i \in 1..Len(similar_patterns) :
            /\ PatternValid(similar_patterns[i])
            /\ similar_patterns[i].actual_covers >= 0) =>
        /\ prediction.raised = NoName
        /\ Estimated

\* C13: the accuracy proxy returns estimated_mape None for every pattern list
\* with fewer than 2 patterns, and estimated_mape 0.0 for every list of 2 or
\* more patterns that all have the same actual_covers, whatever that value
C13_MapeNoneOrZero ==
    Estimated =>
        /\ Len(similar_patterns) < 2
               => prediction.accuracy_metrics.estimated_mape = None
        /\ (/\ Len(similar_patterns) >= 2
            /\ \A i \in 1..Len(similar_patterns) :
                   similar_patterns[i].actual_covers
                       = similar_patterns[1].actual_covers)
               => prediction.accuracy_metrics.estimated_mape = Some(0)

\* C14: in the synthetic-fallback path a request for Dec 25 of any year
\* produces patterns whose base before the jitter is in [40, 70], whatever the
\* day of the week, the events and the weather: every generated actual_covers
\* is within 10 of one base in [40, 70], and is in [30, 80]
C14_ChristmasBaseOverridesDayType ==
    (/\ pc # "patterns"
     /\ Degraded
     /\ request.service_date.month = 12
     /\ request.service_date.day = 25) =>
        /\ Retrieved
        /\ AllFrom(similar_patterns, "mock")
        /\ \E base \in 40..70 :
               \A i \in 1..Len(similar_patterns) :
                   /\ similar_patterns[i].actual_covers \in 30..80
                   /\ Abs(similar_patterns[i].actual_covers - base) <= 10

\* C15: for a Saturday or Sunday that is no holiday, with no index available,
\* predict estimates by weighted_average over the 3 synthetic patterns, with a
\* confidence in [0.85, 0.95] and a predicted_covers in [100, 200]
C15_WeekendBandWithoutIndex ==
    (/\ pc \notin {"idle", "handler", "context", "patterns"}
     /\ RequestValid(raw)
     /\ weekday(request.service_date) \in {5, 6}
     /\ ~_is_mock_holiday(request.service_date)
     /\ ~_demand_predictor.qdrant_client) =>
        /\ retrieval.raised = NoName
        /\ Len(similar_patterns) = MockCount
        /\ AllFrom(similar_patterns, "mock")
        /\ pc # "calculate" =>
               /\ prediction.method = "weighted_average"
               /\ prediction.confidence \in 850..950
               /\ prediction.predicted_covers \in 100..200

\* C20: the result delivered to the caller of the predict operation carries
\* the accuracy_metrics the estimator computed, together with predicted_covers,
\* confidence, staff_recommendation and reasoning
C20_ResponseCarriesAccuracyMetrics ==
    (pc = "responded" /\ response.status = 200) =>
        /\ response.body.accuracy_metrics = Some(prediction.accuracy_metrics)
        /\ response.body.predicted_covers = prediction.predicted_covers
        /\ response.body.confidence = prediction.confidence
        /\ response.body.staff_recommendation = prediction.staff_recommendation

\* what _fetch_external_context ends with for the request of a process that
\* serves it alone, given the values the generator is known to return
alone_contexts(req) ==
    fetch_external_context_outcomes(req, unseeded, generator,
                                    ConcurrentEventDraws, ConcurrentWeatherDraws)

\* what _find_similar_patterns then ends with
alone_patterns(self, req) ==
    UNION {find_similar_patterns_outcomes(self, req, o.context, services,
                                          o.random_state, generator,
                                          ConcurrentMockDraws)
           : o \in alone_contexts(req)}

ContextBuilt(f) == f.pc \notin {"idle", "handler", "context"}

PatternsRetrieved(f) == ContextBuilt(f) /\ f.pc # "patterns"

\* C12: two builds of the context for the same service date and service type
\* give the same context and the same context string, whatever was generated
\* between them
C12_ContextBuildIsDeterministic ==
    \A i, j \in RequestIds :
        (/\ ContextBuilt(inflight[i])
         /\ ContextBuilt(inflight[j])
         /\ inflight[i].request.service_date = inflight[j].request.service_date
         /\ inflight[i].request.service_type = inflight[j].request.service_type) =>
            /\ inflight[i].context = inflight[j].context
            /\ _build_context_string(inflight[i].request, inflight[i].context)
                   = _build_context_string(inflight[j].request, inflight[j].context)

\* two builds for the same date, the second one right after synthetic
\* patterns were generated for that date
C12_Witness ==
    /\ ContextBuilt(inflight["a"])
    /\ ContextBuilt(inflight["b"])
    /\ inflight["a"].request = inflight["b"].request
    /\ inflight["b"].seen =
           after_draws(random_seed(
               toordinal(inflight["a"].request.service_date) + 2000))

\* C16: each of the requests in flight has the context, the patterns and the
\* numeric result it has when it is served alone, and the predictor it was
\* handed: no request is disturbed by the generator state, the predictor or
\* the data of another
C16_ConcurrentRequestsAsIfAlone ==
    \A i \in RequestIds :
        LET f == inflight[i]
        IN /\ ContextBuilt(f) =>
                  \E o \in alone_contexts(f.request) : o.context = f.context
           /\ (PatternsRetrieved(f) /\ f.pc = "calculate") =>
                  \E o \in alone_patterns(f.predictor, f.request) :
                      /\ o.found.patterns = f.similar_patterns
                      /\ o.found.raised = f.raised
           /\ f.pc \in {"staff", "reasoning", "responded"} /\ f.raised = NoName =>
                  /\ \E o \in alone_patterns(f.predictor, f.request) :
                         o.found.patterns = f.similar_patterns
                  /\ \E out \in _calculate_prediction(f.similar_patterns) :
                         /\ out.predicted_covers = f.predicted_covers
                         /\ out.confidence = f.confidence
           /\ f.pc \notin {"idle", "handler"} =>
                  /\ f.predictor =
                         DemandPredictorAgent(f.predictor.instance, services)
                  /\ \A j \in RequestIds \ {i} :
                         inflight[j].pc \notin {"idle", "handler"} =>
                             inflight[j].predictor.instance # f.predictor.instance

\* two requests for different dates interleave: b built its context right
\* after a built its own, then a generated its synthetic patterns
C16_Witness ==
    /\ inflight["a"].pc = "calculate"
    /\ inflight["b"].pc = "patterns"
    /\ inflight["a"].request.service_date # inflight["b"].request.service_date
    /\ inflight["b"].seen =
           after_draws(random_seed(
               toordinal(inflight["a"].request.service_date) + 1000))
    /\ random_state =
           after_draws(random_seed(
               toordinal(inflight["a"].request.service_date) + 2000))
    /\ AllFrom(inflight["a"].similar_patterns, "mock")
    /\ inflight["a"].similar_patterns # <<>>

\* the stages of predict and create_prediction, in the order of the code
PipelineOrder ==
    <<"context", "retrieval", "estimation", "staffing", "narrative", "assembly">>

StageNames == [k \in 1..Len(stages) |-> stages[k].name]

\* the stages that ran did so once each and in the order of the pipeline, and
\* staffing was called with the estimator's predicted_covers
RanInOrder ==
    /\ Len(stages) <= Len(PipelineOrder)
    /\ StageNames = SubSeq(PipelineOrder, 1, Len(stages))
    /\ \A k \in 1..Len(stages) :
           stages[k].name = "staffing" =>
               /\ prediction.method # NoName
               /\ stages[k].received = Some(prediction.predicted_covers)

\* C19: within one predict call every stage runs exactly once, in the order
\* context building, pattern retrieval, demand estimation, staffing
\* translation, narrative generation, response assembly, and the staffing
\* stage receives the predicted_covers the estimator produced
C19_EveryStageOnceInOrder ==
    /\ RanInOrder
    /\ (pc = "responded" /\ RequestValid(raw)) => StageNames = PipelineOrder

\* the calls one request issued: to the embedding service, to the vector
\* index, to the narrative generator
NarrativeCalls == Cardinality({k \in 1..Len(stages) : stages[k].name = "narrative"})

C17_EveryRequestEventuallyAnswered ==
    (pc = "handler") ~> (pc = "responded")

\* C21: day_type is "weekend" exactly when the weekday index is 5 or 6,
\* "friday" exactly when it is 4 and "weekday" otherwise; is_holiday is true
\* exactly when (month, day) is in the holiday table, and holiday_name is set
\* exactly when is_holiday is true
C21_DayTypeAndHolidayClassification ==
    pc = "patterns" =>
        LET index == weekday(request.service_date)
            key == <<request.service_date.month, request.service_date.day>>
        IN /\ context.day_type = "weekend" <=> index \in {5, 6}
           /\ context.day_type = "friday" <=> index = 4
           /\ context.day_type = "weekday" <=> index \in 0..3
           /\ context.day_of_week = DayNames[index + 1]
           /\ context.is_holiday <=> key \in holidays
           /\ context.holiday_name # NoName <=> context.is_holiday

\* a holiday that falls on a Friday, classified
C21_Witness ==
    /\ pc = "patterns"
    /\ context.is_holiday
    /\ context.holiday_name = "Christmas Eve"
    /\ context.day_type = "friday"

\* C22: for every valid request, whichever path served it, index hits of any
\* similarity or the synthetic generator, the confidence predict returns is
\* greater than 0.5
C22_ConfidenceAboveHalf ==
    (pc = "responded" /\ response.status = 200) =>
        /\ prediction.confidence > 500
        /\ response.body.confidence > 500

\* the filtered query raised after the embedding was computed
FilteredQueryFailed ==
    /\ pc # "patterns"
    /\ _demand_predictor.qdrant_client
    /\ _demand_predictor.mistral_client
    /\ ~services.embedding_raises
    /\ services.filtered_raises

\* after the filtered query raised and the unfiltered one answered: two
\* queries, and the hits are the first SearchLimit of the requested service
\* type among the first 2 * SearchLimit points of the ranking, in that order
RetryPostFilters ==
    (FilteredQueryFailed /\ ~services.unfiltered_raises) =>
        LET wanted(pt) == pt.payload.service_type = index_service_type(request)
            best == Take(services.collection, 2 * SearchLimit)
        IN /\ retrieval.query_calls = 2
           /\ retrieval.searched
           /\ retrieval.hits = Take(SelectSeq(best, wanted), SearchLimit)
           /\ Len(retrieval.hits) <= 5

\* C23: when the filtered query fails the retriever issues one unfiltered
\* query with twice the limit and keeps the hits of the requested service
\* type, at most 5 and in ranking order; when the unfiltered query fails too,
\* the request is served by the synthetic generator
C23_RetryUnfilteredThenSynthetic ==
    /\ RetryPostFilters
    /\ (FilteredQueryFailed /\ services.unfiltered_raises) =>
           /\ Retrieved
           /\ retrieval.query_calls = 2
           /\ Len(similar_patterns) = MockCount
           /\ AllFrom(similar_patterns, "mock")

\* the service type of the records a request is answered from
RecordType(service_type) ==
    CASE service_type = "brunch" -> "breakfast"
      [] service_type = "lunch"  -> "lunch"
      [] service_type = "dinner" -> "dinner"

\* C24: the index is filtered, and post-filtered, by the request's service
\* type with brunch replaced by breakfast and lunch and dinner unchanged:
\* every index-sourced pattern of a brunch request comes from a breakfast
\* record, and of a lunch or dinner request from a record of that type
C24_BrunchAnsweredFromBreakfast ==
    (Retrieved /\ retrieval.searched) =>
        LET wanted(pt) ==
                pt.payload.service_type = RecordType(request.service_type)
            reach == IF services.filtered_raises THEN 2 * SearchLimit
                     ELSE Len(services.collection)
        IN /\ retrieval.hits =
                  Take(SelectSeq(Take(services.collection, reach), wanted),
                       SearchLimit)
           /\ retrieval.source = "qdrant" =>
                  /\ Len(similar_patterns) = Len(retrieval.hits)
                  /\ \A i \in 1..Len(similar_patterns) :
                         /\ similar_patterns[i].pattern_id = retrieval.hits[i].id
                         /\ wanted(retrieval.hits[i])

\* a brunch request answered from breakfast records of the index
C24_Witness ==
    /\ Retrieved
    /\ request.service_type = "brunch"
    /\ retrieval.source = "qdrant"
    /\ similar_patterns # <<>>
    /\ \A i \in 1..Len(retrieval.hits) :
           retrieval.hits[i].payload.service_type = "breakfast"

\* C25: every pattern the synthetic generator produces has actual_covers >=
\* 30, a similarity in [0.85, 0.95] and a date strictly earlier than the
\* service date, between 3 and 12 periods of 30 days before it
C25_SyntheticPatternRanges ==
    (Retrieved /\ AllFrom(similar_patterns, "mock")) =>
        \A i \in 1..Len(similar_patterns) :
            LET p == similar_patterns[i]
                days_before == toordinal(request.service_date) - p.date
            IN /\ p.actual_covers >= 30
               /\ p.similarity \in 850..950
               /\ p.date < toordinal(request.service_date)
               /\ p.date >= 1
               /\ days_before \in {30 * months_ago : months_ago \in 3..12}

\* synthetic patterns for a Christmas service, one of them at the floor of 30
\* covers and dated 90 days before the service
C25_Witness ==
    /\ Retrieved
    /\ similar_patterns # <<>>
    /\ AllFrom(similar_patterns, "mock")
    /\ \E i \in 1..Len(similar_patterns) :
           /\ similar_patterns[i].actual_covers = 30
           /\ similar_patterns[i].date = toordinal(request.service_date) - 90

\* C26: for every list of 2 or more patterns with at least one positive
\* similarity, predicted_covers lies inside the reported prediction_interval,
\* min(actual_covers) <= predicted_covers <= max(actual_covers), and
\* patterns_analyzed is the number of patterns
C26_PredictionInsideInterval ==
    (/\ pc # "calculate"
     /\ Len(similar_patterns) >= 2
     /\ total_weight(similar_patterns) > 0) =>
        LET covers == {similar_patterns[i].actual_covers
                          : i \in 1..Len(similar_patterns)}
            am == prediction.accuracy_metrics
        IN /\ Estimated
           /\ am.prediction_interval = <<SetMin(covers), SetMax(covers)>>
           /\ am.prediction_interval[1] <= prediction.predicted_covers
           /\ prediction.predicted_covers <= am.prediction_interval[2]
           /\ am.patterns_analyzed = Some(Len(similar_patterns))

\* the fields of a seeded point have the values of the request and its
\* context
EqualFieldValues(payload, req, ctx) ==
    /\ payload.date = req.service_date
    /\ payload.day_of_week = ctx.day_of_week
    /\ payload.service_type = req.service_type
    /\ payload.day_type = ctx.day_type
    /\ payload.hotel_occupancy = hotel_occupancy(ctx)
    /\ payload.guests_in_house = guests_in_house(ctx)
    /\ payload.weather_condition = ctx.weather.condition
    /\ payload.weather_temp = ctx.weather.temperature
    /\ payload.events = [i \in 1..Len(ctx.events) |-> ctx.events[i].type]
    /\ payload.is_holiday = ctx.is_holiday
    /\ payload.holiday_name = ctx.holiday_name

\* two payloads differ at most by their actual_covers, the context strings
\* set aside
SameButCovers(a, b) ==
    [a EXCEPT !.actual_covers = 0, !.context_str = 0]
        = [b EXCEPT !.actual_covers = 0, !.context_str = 0]

C28_OnePredictorInstance ==
    /\ _demand_predictor.instance <= 1
    /\ \A i \in RequestIds :
           inflight[i].pc \notin {"idle", "handler"}
               => inflight[i].predictor.instance = 1

\* C29: fetch_week_predictions issues exactly 7 x |service_types| requests,
\* never has more than 5 of them in flight, and returns one result per
\* request in request order (day by day, then service type); a request that
\* fails yields an error record with predicted_covers None and the other
\* results are there, in their places
C29_WeekFetchBoundedOrderedComplete ==
    (dashboard.view_mode = "weekly" /\ dashboard.service_types # <<>>) =>
        LET n == Len(dashboard.service_types)
            results == dashboard.results
            start == toordinal(dashboard.service_date)
        IN /\ Cardinality(dashboard.running) <= 5
           /\ dashboard.posts <= 7 * n
           /\ dashboard.pc = "shown" =>
                 /\ dashboard.posts = 7 * n
                 /\ Cardinality(dashboard.answers) = 7 * n
                 /\ Len(results) = 7 * n
                 /\ \A k \in 1..(7 * n) :
                        LET params == results[k]._params
                            failed == predict_status(params, dashboard.failing)
                                          # 200
                        IN /\ params.restaurant_id = dashboard.restaurant_id
                           /\ toordinal(strptime_Ymd(params.service_date))
                                  = start + ((k - 1) \div n)
                           /\ params.service_type
                                  = dashboard.service_types[((k - 1) % n) + 1]
                           /\ failed <=> results[k]._error # None
                           /\ failed <=> results[k].predicted_covers = None

\* a week of lunch and dinner was fetched; the request of a day on which the
\* service fails has its error record, and the next request its prediction
C29_Witness ==
    /\ dashboard.view_mode = "weekly"
    /\ dashboard.pc = "shown"
    /\ Len(dashboard.results) = 14
    /\ \E k \in 1..13 :
           /\ dashboard.results[k].predicted_covers = None
           /\ dashboard.results[k + 1].predicted_covers # None

\* C30: every service type the dashboard lets a user select, in single-day
\* and in weekly mode, is one the predict API accepts: no request the
\* dashboard sends is rejected with a validation error
C30_NoSelectionRejected ==
    \A answer \in dashboard.answers : answer.status # 422

====
